---- MODULE Spec2Model ----
(***************************************************************************)
(* Verification model of the gousb host-side USB access library.           *)
(*                                                                         *)
(* Two specifications live in this module:                                 *)
(*   Spec        the Device session (Open / Close / transfers / kernel     *)
(*               driver attach and detach) running against a model of the  *)
(*               Linux file-descriptor table and the usbdevfs ioctl entry. *)
(*   SpecDecode  the descriptor stream decoders (ReadDescriptors and the   *)
(*               older parseDescriptor) applied to bounded byte streams.   *)
(***************************************************************************)
EXTENDS Integers, Sequences, FiniteSets, TLC

VARIABLES
    fd,        \* fd[s]: the Device.fd field of session s (-1 = unused)
    openFile,  \* kernel fd table: openFile[f] = device file open on f, or "none"
    driver,    \* driver[dev][iface]: TRUE iff a kernel driver is bound
    nOpen,     \* nOpen[s]: number of Open() calls of s that succeeded (saturating)
    last,      \* outcome of the last Device method that ran
    build,     \* which revision of package usbfs the program is linked with
    dec        \* state of the descriptor stream decoder

vars == <<fd, openFile, driver, nOpen, last, build, dec>>

(***************************************************************************)
(* Bounds of the model                                                     *)
(***************************************************************************)
\* number of descriptor slots the process may still take from the kernel
MaxFds == 2
\* saturation point of the per-session count of successful opens
MaxOpens == 2
\* largest payload length drawn for a transfer
MaxPayload == 1

(***************************************************************************)
(* Sessions and the operating system                                       *)
(***************************************************************************)
\* Two Device values as EnumerateDevices returns them; each names its own
\* device file (BusNumber, DeviceNumber).
Sessions == {"A", "B"}

\* fd numbers the kernel hands out: the lowest free one above stdio
FirstFd == 3
Fds == FirstFd .. (FirstFd + MaxFds - 1)

Ifaces == {0}

OpenErrnos == {"ENOENT", "EACCES"}
CloseErrnos == {"EINTR"}
IoctlErrnos == {"ETIMEDOUT", "ENODEV"}

\* a payload is its length; the nil slice is kept apart from the empty one
NilPayload == -1
\* lengths from 0 up, and one that no longer fits 16 bits
Payloads == {NilPayload} \cup (0 .. MaxPayload) \cup {65536 + MaxPayload}
\* the length field of a bulk record has 32 bits: the short lengths alone
BulkPayloads == {NilPayload} \cup (0 .. MaxPayload)

NoCall == <<>>

\* fd field of a freshly enumerated Device
InitFd == -1

Min(a, b) == IF a < b THEN a ELSE b

FreeFds == {f \in Fds : openFile[f] = "none"}

LowestFree == CHOOSE f \in FreeFds : \A g \in FreeFds : f <= g

\* syscall.Open on the device file of session s: every outcome the kernel may
\* produce in the current state
OpenDevice(s) ==
    {[fd |-> -1, err |-> e] : e \in OpenErrnos}
    \cup (IF FreeFds = {} THEN {[fd |-> -1, err |-> "EMFILE"]}
          ELSE {[fd |-> LowestFree, err |-> "nil"]})

\* syscall.Close(f): Linux releases the descriptor whatever close returns;
\* a descriptor that is not open yields EBADF and releases nothing
SysClose(f) ==
    IF f \in Fds /\ openFile[f] # "none"
    THEN {[err |-> e, table |-> [openFile EXCEPT ![f] = "none"]] :
              e \in {"nil"} \cup CloseErrnos}
    ELSE {[err |-> "EBADF", table |-> openFile]}

\* the ioctl entry point: the kernel resolves the descriptor first
ValidFd(f) == f \in Fds /\ openFile[f] # "none"

\* the argument every Device method passes as the descriptor: d.fd
HandleArg_AnyOpen(s) ==
    IF fd[s] = -1 /\ Fds # FreeFds
    THEN CHOOSE f \in Fds : openFile[f] # "none"
    ELSE fd[s]

\* one descriptor variable shared by all Devices instead of a field of each
HandleArg_Shared(s) == fd["A"]

HandleArg(s) == fd[s]

Call(name, f, cmd, arg) == [call |-> name, fd |-> f, cmd |-> cmd, arg |-> arg]

Outcome(op, s, err, n, sys) == [op |-> op, s |-> s, err |-> err, n |-> n, sys |-> sys]

(***************************************************************************)
(* Device.Open / IsOpen / Close                                            *)
(***************************************************************************)
IsOpen(s) == fd[s] # -1

AlreadyOpen_Never(s) == FALSE

AlreadyOpen_Sticky(s) == nOpen[s] > 0

\* the guard of Open: if d.fd != -1
AlreadyOpen(s) == fd[s] # -1

Open_CheckAfter(s) ==
    \E r \in OpenDevice(s) :
        LET sys == <<Call("open", -1, "O_RDWR", [dev |-> s])>>
            tab == IF r.err = "nil" THEN [openFile EXCEPT ![r.fd] = s] ELSE openFile
        IN  /\ openFile' = tab
            /\ IF AlreadyOpen(s)
               THEN /\ last' = Outcome("Open", s, "device already open", 0, sys)
                    /\ UNCHANGED <<fd, nOpen>>
               ELSE IF r.err # "nil"
               THEN /\ last' = Outcome("Open", s, r.err, 0, sys)
                    /\ UNCHANGED <<fd, nOpen>>
               ELSE /\ fd' = [fd EXCEPT ![s] = r.fd]
                    /\ nOpen' = [nOpen EXCEPT ![s] = Min(@ + 1, MaxOpens)]
                    /\ last' = Outcome("Open", s, "nil", 0, sys)
            /\ UNCHANGED <<driver, build, dec>>

Open(s) ==
    IF AlreadyOpen(s)
    THEN /\ last' = Outcome("Open", s, "device already open", 0, NoCall)
         /\ UNCHANGED <<fd, openFile, driver, nOpen, build, dec>>
    ELSE \E r \in OpenDevice(s) :
            LET sys == <<Call("open", -1, "O_RDWR", [dev |-> s])>>
            IN  IF r.err # "nil"
                THEN /\ last' = Outcome("Open", s, r.err, 0, sys)
                     /\ UNCHANGED <<fd, openFile, driver, nOpen, build, dec>>
                ELSE /\ fd' = [fd EXCEPT ![s] = r.fd]
                     /\ openFile' = [openFile EXCEPT ![r.fd] = s]
                     /\ nOpen' = [nOpen EXCEPT ![s] = Min(@ + 1, MaxOpens)]
                     /\ last' = Outcome("Open", s, "nil", 0, sys)
                     /\ UNCHANGED <<driver, build, dec>>

HandleAfterClose_OnSuccess(s, e) == IF e = "nil" THEN -1 ELSE fd[s]

\* the value Close stores in d.fd after syscall.Close returned e
HandleAfterClose(s, e) == -1

Close(s) ==
    \E r \in SysClose(HandleArg(s)) :
        /\ openFile' = r.table
        /\ fd' = [fd EXCEPT ![s] = HandleAfterClose(s, r.err)]
        /\ last' = Outcome("Close", s, r.err, 0,
                           <<Call("close", HandleArg(s), "", [dev |-> s])>>)
        /\ UNCHANGED <<driver, nOpen, build, dec>>

(***************************************************************************)
(* The usbdevfs ioctl entry of the kernel                                  *)
(***************************************************************************)
Bind(dev, iface, b) == [driver EXCEPT ![dev][iface] = b]

\* proc_ioctl: the pass-through command carrying DISCONNECT or CONNECT
ProcIoctl(dev, arg) ==
    IF arg.IoctlCode = "USBDEVFS_DISCONNECT"
    THEN IF driver[dev][arg.Interface]
         THEN {[n |-> 0, err |-> "nil", drv |-> Bind(dev, arg.Interface, FALSE)]}
         ELSE {[n |-> -1, err |-> "ENODATA", drv |-> driver]}
    ELSE IF arg.IoctlCode = "USBDEVFS_CONNECT"
    THEN IF driver[dev][arg.Interface]
         THEN {[n |-> -1, err |-> "EBUSY", drv |-> driver]}
         ELSE {[n |-> 0, err |-> "nil", drv |-> Bind(dev, arg.Interface, TRUE)]}
    ELSE {[n |-> -1, err |-> "ENOTTY", drv |-> driver]}

\* ioctl(f, cmd, arg): every outcome the kernel may produce
KernelIoctl(f, cmd, arg) ==
    IF ~ValidFd(f)
    THEN {[n |-> -1, err |-> "EBADF", drv |-> driver]}
    ELSE IF cmd \in {"USBDEVFS_CONTROL", "USBDEVFS_BULK"}
    THEN {[n |-> k, err |-> "nil", drv |-> driver] : k \in {0, arg.Length}}
         \cup {[n |-> -1, err |-> e, drv |-> driver] : e \in IoctlErrnos}
    ELSE IF cmd = "USBDEVFS_GETDRIVER"
    THEN IF driver[openFile[f]][arg.Interface]
         THEN {[n |-> 0, err |-> "nil", drv |-> driver]}
         ELSE {[n |-> -1, err |-> "ENODATA", drv |-> driver]}
    ELSE IF cmd = "USBDEVFS_IOCTL"
    THEN ProcIoctl(openFile[f], arg)
    ELSE {[n |-> -1, err |-> "ENOTTY", drv |-> driver]}

(***************************************************************************)
(* Package usbfs: the commands handed to the kernel                        *)
(***************************************************************************)
PayloadLen(p) == IF p = NilPayload THEN 0 ELSE p

\* slicePtr takes &s[0]: it panics on a slice that is not nil and is empty
SlicePtrPanics(p) == p # NilPayload /\ p = 0

\* usbdevfs_ctrltransfer as ControlTransfer fills it
ControlTransfer(f, typ, request, value, index, timeout, p) ==
    Call("ioctl", f, "USBDEVFS_CONTROL",
         [RequestType |-> typ, Request |-> request, Value |-> value,
          Index |-> index, Timeout |-> timeout,
          Length |-> PayloadLen(p) % 65536])

\* usbdevfs_bulktransfer as BulkTransfer fills it
BulkTransfer(f, endpoint, timeout, p) ==
    Call("ioctl", f, "USBDEVFS_BULK",
         [Endpoint |-> endpoint, Timeout |-> timeout,
          Length |-> PayloadLen(p)])

GetDriver(f, iface) ==
    Call("ioctl", f, "USBDEVFS_GETDRIVER", [Interface |-> iface])

\* DriverIOCTL hands its request argument to ioctl as the command number
DriverIOCTL(f, iface, request, data) ==
    Call("ioctl", f, request,
         [Interface |-> iface, IoctlCode |-> request, Data |-> data])

Disconnect(f, iface) == DriverIOCTL(f, iface, "USBDEVFS_DISCONNECT", 0)

Connect(f, iface) == DriverIOCTL(f, iface, "USBDEVFS_CONNECT", 0)

\* the syscall revision of the package wraps the code in USBDEVFS_IOCTL
DisconnectSyscall(f, iface) ==
    Call("ioctl", f, "USBDEVFS_IOCTL",
         [Interface |-> iface, IoctlCode |-> "USBDEVFS_DISCONNECT", Data |-> 0])

ConnectSyscall(f, iface) ==
    Call("ioctl", f, "USBDEVFS_IOCTL",
         [Interface |-> iface, IoctlCode |-> "USBDEVFS_CONNECT", Data |-> 0])

(***************************************************************************)
(* Device: transfers and kernel driver control                             *)
(***************************************************************************)
Issue_Retry(op, s, c) ==
    \E r \in KernelIoctl(c.fd, c.cmd, c.arg) :
        /\ driver' = r.drv
        /\ \/ /\ r.err # "ETIMEDOUT"
              /\ last' = Outcome(op, s, r.err, r.n, <<c>>)
           \/ /\ r.err = "ETIMEDOUT"
              /\ \E r2 \in KernelIoctl(c.fd, c.cmd, c.arg) :
                     last' = Outcome(op, s, r2.err, r2.n, <<c, c>>)
        /\ UNCHANGED <<fd, openFile, nOpen, build, dec>>

\* one ioctl issued by method op of session s, and what comes back
Issue(op, s, c) ==
    \E r \in KernelIoctl(c.fd, c.cmd, c.arg) :
        /\ driver' = r.drv
        /\ last' = Outcome(op, s, r.err, r.n, <<c>>)
        /\ UNCHANGED <<fd, openFile, nOpen, build, dec>>

Panic(op, s) ==
    /\ last' = Outcome(op, s, "panic", 0, NoCall)
    /\ UNCHANGED <<fd, openFile, driver, nOpen, build, dec>>

DefaultTimeout == 1000

\* the (request type, request, value, index) tuples drawn for control transfers:
\* GET_DESCRIPTOR(String, 2) in language 0x0409 and SET_CONFIGURATION(1)
CtrlRequests == {<<128, 6, 770, 1033>>, <<0, 9, 1, 0>>}
Timeouts == {50}
Endpoints == {1, 129}

Ctrl(s, typ, req, value, index, p) ==
    IF SlicePtrPanics(p) THEN Panic("Ctrl", s)
    ELSE Issue("Ctrl", s,
               ControlTransfer(HandleArg(s), typ, req, value, index, DefaultTimeout, p))

CtrlTimeout(s, typ, req, value, index, p, timeout) ==
    IF SlicePtrPanics(p) THEN Panic("CtrlTimeout", s)
    ELSE Issue("CtrlTimeout", s,
               ControlTransfer(HandleArg(s), typ, req, value, index, timeout, p))

Bulk(s, ep, p) ==
    IF SlicePtrPanics(p) THEN Panic("Bulk", s)
    ELSE Issue("Bulk", s, BulkTransfer(HandleArg(s), ep % 256, DefaultTimeout, p))

BulkTimeout(s, ep, p, timeout) ==
    IF SlicePtrPanics(p) THEN Panic("BulkTimeout", s)
    ELSE Issue("BulkTimeout", s, BulkTransfer(HandleArg(s), ep % 256, timeout, p))

DeviceGetDriver(s, iface) == Issue("GetDriver", s, GetDriver(HandleArg(s), iface))

DetachKernel(s, iface) ==
    Issue("DetachKernel", s,
          IF build = "syscall" THEN DisconnectSyscall(HandleArg(s), iface)
          ELSE Disconnect(HandleArg(s), iface))

AttachKernel(s, iface) ==
    Issue("AttachKernel", s,
          IF build = "syscall" THEN ConnectSyscall(HandleArg(s), iface)
          ELSE Connect(HandleArg(s), iface))

(***************************************************************************)
(* The session specification                                               *)
(***************************************************************************)
DecIdle == [phase |-> "idle"]

Init ==
    /\ fd = [s \in Sessions |-> InitFd]
    /\ openFile = [f \in Fds |-> "none"]
    /\ driver \in [Sessions -> [Ifaces -> BOOLEAN]]
    /\ nOpen = [s \in Sessions |-> 0]
    /\ last = Outcome("none", "A", "nil", 0, NoCall)
    /\ build \in {"syscall", "goioctl"}
    /\ dec = DecIdle

\* the transfer methods of Device
Transfer(s) ==
    \/ \E q \in CtrlRequests, p \in Payloads :
           Ctrl(s, q[1], q[2], q[3], q[4], p)
    \/ \E q \in CtrlRequests, p \in Payloads, timeout \in Timeouts :
           CtrlTimeout(s, q[1], q[2], q[3], q[4], p, timeout)
    \/ \E ep \in Endpoints, p \in BulkPayloads : Bulk(s, ep, p)
    \/ \E ep \in Endpoints, p \in BulkPayloads, timeout \in Timeouts :
           BulkTimeout(s, ep, p, timeout)

\* attaching and detaching the kernel's driver of an interface
DriverControl(s) ==
    \/ \E iface \in Ifaces : DetachKernel(s, iface)
    \/ \E iface \in Ifaces : AttachKernel(s, iface)

Next ==
    \E s \in Sessions :
        \/ Open(s)
        \/ Close(s)
        \/ Transfer(s)
        \/ \E iface \in Ifaces : DeviceGetDriver(s, iface)
        \/ DriverControl(s)

Spec == Init /\ [][Next]_vars

(***************************************************************************)
(* Descriptor decoding                                                     *)
(***************************************************************************)
\* largest number of descriptors concatenated into an input stream
MaxDescs == 3
\* largest number of bytes cut off the end of an input stream
MaxCut == 2

DescriptorTypeDevice == 1
DescriptorTypeConfig == 2
DescriptorTypeString == 3
DescriptorTypeInterface == 4
DescriptorTypeEndpoint == 5

\* the const block of the descriptor types, one entry for each ConstSpec in
\* the order of the source: <<name, "iota", k>> is name = DescriptorType(iota
\* + k), <<name, "same", 0>> a name without an expression, which repeats the
\* expression in force, and <<name, "value", k>> is name = DescriptorType(k)
DescriptorTypeConsts ==
    <<<<"DescriptorTypeDevice", "iota", 1>>,
      <<"DescriptorTypeConfig", "same", 0>>,
      <<"DescriptorTypeString", "same", 0>>,
      <<"DescriptorTypeInterface", "same", 0>>,
      <<"DescriptorTypeEndpoint", "same", 0>>,
      <<"DescriptorTypeInterfacePower", "iota", 8>>,
      <<"DescriptorTypeOTG", "same", 0>>,
      <<"DescriptorTypeDebug", "same", 0>>,
      <<"DescriptorTypeInterfaceAssociation", "same", 0>>,
      <<"DescriptorTypeBOS", "value", 15>>,
      <<"DescriptorTypeDeviceCapability", "value", 16>>,
      <<"DescriptorTypeSuperSpeedUSBEndprointCompanion", "value", 48>>,
      <<"DescriptorTypeSuperSpeedPlusIsochronousEndpointCompanion", "value", 49>>>>

\* the expression in force at the i-th ConstSpec of the block
RECURSIVE ExpressionAt(_)
ExpressionAt(i) ==
    IF DescriptorTypeConsts[i][2] = "same" THEN ExpressionAt(i - 1)
    ELSE DescriptorTypeConsts[i]

\* the value of the i-th constant: iota is the index of the ConstSpec in the
\* block, counted from 0, and does not start again after a blank line
ConstValue(i) ==
    IF ExpressionAt(i)[2] = "iota" THEN ((i - 1) + ExpressionAt(i)[3]) % 256
    ELSE ExpressionAt(i)[3]

\* the value of each constant, by name
DescriptorTypeValue ==
    [n \in {DescriptorTypeConsts[i][1] : i \in DOMAIN DescriptorTypeConsts} |->
        ConstValue(CHOOSE i \in DOMAIN DescriptorTypeConsts :
                       DescriptorTypeConsts[i][1] = n)]

\* a type code of the wire is compared with every constant of the block
InitTypeCode ==
    /\ fd = [s \in Sessions |-> InitFd]
    /\ openFile = [f \in Fds |-> "none"]
    /\ driver = [s \in Sessions |-> [i \in Ifaces |-> FALSE]]
    /\ nOpen = [s \in Sessions |-> 0]
    /\ last = Outcome("none", "A", "nil", 0, NoCall)
    /\ build = "goioctl"
    /\ dec \in {[phase |-> "code", code |-> c] : c \in 0 .. 255}

\* the constants a DescriptorType value t is equal to (t == DescriptorTypeX)
CompareType ==
    /\ dec.phase = "code"
    /\ dec' = [phase |-> "named", code |-> dec.code,
               names |-> {n \in DOMAIN DescriptorTypeValue :
                             DescriptorTypeValue[n] = dec.code}]
    /\ UNCHANGED <<fd, openFile, driver, nOpen, last, build>>

NextTypeCode == CompareType

SpecTypeCode == InitTypeCode /\ [][NextTypeCode]_vars

\* the registry as the package initialises it
descriptorMap ==
    (DescriptorTypeDevice :> "DeviceDescriptor")
    @@ (DescriptorTypeConfig :> "ConfigurationDescriptor")
    @@ (DescriptorTypeInterface :> "InterfaceDescriptor")
    @@ (DescriptorTypeEndpoint :> "EndpointDescriptor")
    @@ (DescriptorTypeString :> "StringDescriptor")

\* the struct fields after the embedded header, by kind
DeviceDescriptor ==
    <<"u16", "u8", "u8", "u8", "u8", "u16", "u16", "u16", "u8", "u8", "u8", "u8">>
ConfigurationDescriptor == <<"u16", "u8", "u8", "u8", "u8", "u8">>
InterfaceDescriptor == <<"u8", "u8", "u8", "u8", "u8", "u8", "u8">>
EndpointDescriptor == <<"u8", "u8", "u16", "u8">>
\* the older revision still carries bRefresh and bSynchAddress
EndpointDescriptorOld == <<"u8", "u8", "u16", "u8", "u8", "u8">>
StringDescriptor == <<"bytes">>
UnknownDescriptor == <<"bytes">>

\* newDescriptor: the registered type of the header's code, else Unknown
newDescriptor(hdr) ==
    IF hdr.DescriptorType \in DOMAIN descriptorMap
    THEN descriptorMap[hdr.DescriptorType]
    ELSE "UnknownDescriptor"

StructFields(name, old) ==
    IF name = "DeviceDescriptor" THEN DeviceDescriptor
    ELSE IF name = "ConfigurationDescriptor" THEN ConfigurationDescriptor
    ELSE IF name = "InterfaceDescriptor" THEN InterfaceDescriptor
    ELSE IF name = "EndpointDescriptor"
         THEN (IF old THEN EndpointDescriptorOld ELSE EndpointDescriptor)
    ELSE IF name = "StringDescriptor" THEN StringDescriptor
    ELSE UnknownDescriptor

FieldSize(kind) == IF kind = "u8" THEN 1 ELSE IF kind = "u16" THEN 2 ELSE 4

\* io.ReadFull of n bytes from reader buf at offset pos
ReadFull(buf, pos, n) ==
    IF Len(buf) - pos >= n
    THEN [bytes |-> SubSeq(buf, pos + 1, pos + n), pos |-> pos + n, err |-> "nil"]
    ELSE IF Len(buf) = pos
    THEN [bytes |-> <<>>, pos |-> pos, err |-> "EOF"]
    ELSE [bytes |-> SubSeq(buf, pos + 1, Len(buf)), pos |-> Len(buf),
          err |-> "ErrUnexpectedEOF"]

\* ioutil.ReadAll: everything the reader still holds
ReadAll(buf, pos) == [bytes |-> SubSeq(buf, pos + 1, Len(buf)), pos |-> Len(buf)]

RECURSIVE LittleEndian(_)
LittleEndian(bytes) ==
    IF bytes = <<>> THEN 0 ELSE Head(bytes) + 256 * LittleEndian(Tail(bytes))

\* readDescriptorHeader: binary.Read of the two header bytes
readDescriptorHeader(buf, pos) ==
    LET r == ReadFull(buf, pos, 2)
    IN  IF r.err = "nil"
        THEN [hdr |-> [Length |-> r.bytes[1], DescriptorType |-> r.bytes[2]],
              pos |-> r.pos, err |-> "nil"]
        ELSE [hdr |-> [Length |-> 0, DescriptorType |-> 0], pos |-> r.pos, err |-> r.err]

Zeros(n) == [i \in 1 .. n |-> 0]

\* the field loop of readDescriptor / createDescriptor from field i on: a
\* byte slice takes all the reader holds, a short read of an integer leaves
\* the loop and the remaining fields at their zero values
RECURSIVE ReadFieldsFrom(_, _, _, _, _)
ReadFieldsFrom(fields, i, buf, pos, acc) ==
    IF i > Len(fields) THEN [fields |-> acc, Data |-> <<>>, pos |-> pos]
    ELSE IF fields[i] = "bytes"
    THEN LET a == ReadAll(buf, pos)
         IN  [fields |-> acc, Data |-> a.bytes, pos |-> a.pos]
    ELSE LET r == ReadFull(buf, pos, FieldSize(fields[i]))
         IN  IF r.err # "nil"
             THEN [fields |-> acc \o Zeros(Len(fields) - i + 1), Data |-> <<>>,
                   pos |-> r.pos]
             ELSE ReadFieldsFrom(fields, i + 1, buf, r.pos,
                                 Append(acc, LittleEndian(r.bytes)))

\* the bytes the fields in front of field j take
RECURSIVE FieldOffset(_, _)
FieldOffset(fields, j) ==
    IF j <= 1 THEN 0 ELSE FieldOffset(fields, j - 1) + FieldSize(fields[j - 1])

\* a decoder that gives up the whole record when one field runs short
readDescriptor_AllOrNothing(hdr, buf, pos, old) ==
    LET name == newDescriptor(hdr)
        fs == StructFields(name, old)
        r == ReadFieldsFrom(fs, 1, buf, pos, <<>>)
        short == fs[1] # "bytes" /\ Len(buf) - pos < FieldOffset(fs, Len(fs) + 1)
    IN  [desc |-> [kind |-> name, hdr |-> hdr,
                   fields |-> IF short THEN Zeros(Len(fs)) ELSE r.fields,
                   Data |-> r.Data],
         pos |-> r.pos]

\* readDescriptor (old = FALSE) and createDescriptor (old = TRUE): no
\* registered type implements DescriptorParser, so every descriptor is
\* decoded field by field from the reader it is handed
readDescriptor(hdr, buf, pos, old) ==
    LET name == newDescriptor(hdr)
        r == ReadFieldsFrom(StructFields(name, old), 1, buf, pos, <<>>)
    IN  [desc |-> [kind |-> name, hdr |-> hdr, fields |-> r.fields, Data |-> r.Data],
         pos |-> r.pos]

Done(err, out) ==
    [dec EXCEPT !.phase = "done", !.err = err, !.out = out,
                !.offs = IF out = <<>> THEN <<>> ELSE @]

\* one turn of the loop of ReadDescriptors: the descriptor is decoded from
\* the stream itself
ReadDescriptors ==
    /\ dec.phase = "run"
    /\ dec.variant = "ReadDescriptors"
    /\ LET h == readDescriptorHeader(dec.stream, dec.pos)
       IN  IF h.err # "nil"
           THEN dec' = Done(IF h.err = "EOF" THEN "nil" ELSE h.err, dec.out)
           ELSE LET d == readDescriptor(h.hdr, dec.stream, h.pos, FALSE)
                IN  dec' = [dec EXCEPT !.pos = d.pos,
                                       !.out = Append(@, d.desc),
                                       !.offs = Append(@, dec.pos)]
    /\ UNCHANGED <<fd, openFile, driver, nOpen, last, build>>

\* make([]byte, hdr.Length-2): the subtraction is in uint8
BodySize(hdr) == (hdr.Length - 2) % 256

\* one turn of the loop of parseDescriptor: the body is read into a buffer
\* of its own first; a short body is logged and skipped
parseDescriptor ==
    /\ dec.phase = "run"
    /\ dec.variant = "parseDescriptor"
    /\ LET h == readDescriptorHeader(dec.stream, dec.pos)
       IN  IF h.err # "nil"
           THEN dec' = IF h.err = "EOF" THEN Done("nil", dec.out)
                       ELSE Done(h.err, <<>>)
           ELSE LET body == ReadFull(dec.stream, h.pos, BodySize(h.hdr))
                IN  IF body.err # "nil"
                    THEN dec' = [dec EXCEPT !.pos = body.pos]
                    ELSE LET d == readDescriptor(h.hdr, body.bytes, 0, TRUE)
                         IN  dec' = [dec EXCEPT !.pos = body.pos,
                                                !.out = Append(@, d.desc),
                                                !.offs = Append(@, dec.pos)]
    /\ UNCHANGED <<fd, openFile, driver, nOpen, last, build>>

\* GetDeviceDescriptor on a Device of EnumerateDevices, whose Descriptors
\* are what parseDescriptor returned: d.Descriptors[0].(*DeviceDescriptor)
\* indexes and asserts the type without a check
GetDeviceDescriptor ==
    /\ dec.phase = "done"
    /\ dec.variant = "parseDescriptor"
    /\ dec.err = "nil"
    /\ dec' = [dec EXCEPT !.phase = "GetDeviceDescriptor",
                          !.err = IF dec.out = <<>> THEN "panic"
                                  ELSE IF dec.out[1].kind # "DeviceDescriptor"
                                  THEN "panic"
                                  ELSE "nil"]
    /\ UNCHANGED <<fd, openFile, driver, nOpen, last, build>>

(***************************************************************************)
(* Input streams of the decoders                                           *)
(***************************************************************************)
\* (length, type) headers of the descriptors put into the streams
FrameKinds ==
    {<<7, 5>>, <<9, 5>>, <<4, 5>>, <<4, 3>>, <<2, 3>>, <<3, 153>>, <<0, 5>>, <<1, 3>>,
     <<5, 15>>, <<18, 1>>}

BodyLen(kind) == IF kind[1] < 2 THEN 0 ELSE kind[1] - 2

\* body byte i of the k-th descriptor of a stream
Fill(k, i) == 16 * k + i

FrameBytes(kind, k) ==
    <<kind[1], kind[2]>> \o [i \in 1 .. BodyLen(kind) |-> Fill(k, i)]

RECURSIVE Concat(_, _)
Concat(kinds, k) ==
    IF kinds = <<>> THEN <<>>
    ELSE FrameBytes(Head(kinds), k) \o Concat(Tail(kinds), k + 1)

KindSeqs == UNION {[1 .. n -> FrameKinds] : n \in 0 .. MaxDescs}

Streams ==
    {SubSeq(Concat(ks, 1), 1, Len(Concat(ks, 1)) - c) :
        ks \in KindSeqs, c \in 0 .. MaxCut}

Variants == {"ReadDescriptors", "parseDescriptor"}

InitDecode ==
    /\ fd = [s \in Sessions |-> InitFd]
    /\ openFile = [f \in Fds |-> "none"]
    /\ driver = [s \in Sessions |-> [i \in Ifaces |-> FALSE]]
    /\ nOpen = [s \in Sessions |-> 0]
    /\ last = Outcome("none", "A", "nil", 0, NoCall)
    /\ build = "syscall"
    /\ dec \in {[phase |-> "run", variant |-> v, stream |-> st, pos |-> 0,
                 out |-> <<>>, offs |-> <<>>, err |-> "nil"] :
                    v \in Variants, st \in Streams}

NextDecode == ReadDescriptors \/ parseDescriptor \/ GetDeviceDescriptor

SpecDecode == InitDecode /\ [][NextDecode]_vars

(***************************************************************************)
(* The registry of descriptor types                                        *)
(***************************************************************************)
\* largest number of RegisterDescriptorType calls made before decoding
MaxRegs == 2

DescriptorTypeHID == 33

\* hid.Descriptor: the fields after the embedded header
HidDescriptor == <<"u16", "u8", "u8", "u8", "u16", "u8", "u16">>

\* Types of a caller that implement DescriptorParser.  Both have two uint8
\* fields after the header.  ReadUSBDescriptor of VendorDescriptor reads one
\* byte into the first of them and fails with the reader's error when there
\* is none; that of FailingDescriptor returns an error of its own.
CustomDecoders == {"VendorDescriptor", "FailingDescriptor"}
VendorDescriptor == <<"u8", "u8">>

ReadUSBDescriptor(name, hdr, buf, pos) ==
    IF name = "FailingDescriptor"
    THEN [fields |-> <<>>, pos |-> pos, err |-> "not a vendor descriptor"]
    ELSE LET r == ReadFull(buf, pos, 1)
         IN  IF r.err # "nil" THEN [fields |-> <<>>, pos |-> r.pos, err |-> r.err]
             ELSE [fields |-> <<r.bytes[1], 0>>, pos |-> r.pos, err |-> "nil"]

\* the struct fields of a registered type
RegisteredFields(name) ==
    IF name = "hid.Descriptor" THEN HidDescriptor
    ELSE IF name \in CustomDecoders THEN VendorDescriptor
    ELSE StructFields(name, FALSE)

\* newDescriptor on the registry as the calls made so far have left it
newDescriptorIn(registry, hdr) ==
    IF hdr.DescriptorType \in DOMAIN registry
    THEN registry[hdr.DescriptorType]
    ELSE "UnknownDescriptor"

\* readDescriptor: a type that implements DescriptorParser decodes itself,
\* any other is decoded field by field; calls lists the decoders that ran
readDescriptorIn(registry, hdr, buf, pos) ==
    LET name == newDescriptorIn(registry, hdr)
    IN  IF name \in CustomDecoders
        THEN LET c == ReadUSBDescriptor(name, hdr, buf, pos)
             IN  IF c.err # "nil"
                 THEN [desc |-> <<>>, err |-> c.err, calls |-> <<"ReadUSBDescriptor">>]
                 ELSE [desc |-> [kind |-> name, hdr |-> hdr, fields |-> c.fields,
                                 Data |-> <<>>],
                       err |-> "nil", calls |-> <<"ReadUSBDescriptor">>]
        ELSE LET r == ReadFieldsFrom(RegisteredFields(name), 1, buf, pos, <<>>)
             IN  [desc |-> [kind |-> name, hdr |-> hdr, fields |-> r.fields,
                            Data |-> r.Data],
                  err |-> "nil", calls |-> <<"field loop">>]

\* ParseDescriptor of the current revision
ParseDescriptorIn(registry, data) ==
    LET h == readDescriptorHeader(data, 0)
    IN  IF h.err # "nil" THEN [desc |-> <<>>, err |-> h.err, calls |-> <<>>]
        ELSE readDescriptorIn(registry, h.hdr, data, h.pos)

\* a registry that keeps the first type registered for a code
RegisterDescriptorType_KeepFirst(typ, desc) ==
    /\ dec.phase = "registry"
    /\ Len(dec.regs) < MaxRegs
    /\ dec' = [dec EXCEPT !.regs = Append(@, <<typ, desc>>),
                          !.registry = IF typ \in DOMAIN @ THEN @
                                       ELSE (typ :> desc) @@ @]
    /\ UNCHANGED <<fd, openFile, driver, nOpen, last, build>>

\* RegisterDescriptorType(typ, desc): descriptorMap[typ] = reflect.TypeOf(desc);
\* regs is the list of the calls made
RegisterDescriptorType(typ, desc) ==
    /\ dec.phase = "registry"
    /\ Len(dec.regs) < MaxRegs
    /\ dec' = [dec EXCEPT !.regs = Append(@, <<typ, desc>>),
                          !.registry = (typ :> desc) @@ @]
    /\ UNCHANGED <<fd, openFile, driver, nOpen, last, build>>

\* ParseDescriptor(data) with the registry as it stands
Decode(data) ==
    /\ dec.phase = "registry"
    /\ dec' = [dec EXCEPT !.phase = "decoded", !.data = data,
                          !.result = ParseDescriptorIn(dec.registry, data)]
    /\ UNCHANGED <<fd, openFile, driver, nOpen, last, build>>

\* the codes and types registered: a built-in code, the code package hid
\* registers in its init, a vendor code
RegisteredCodes == {DescriptorTypeEndpoint, DescriptorTypeHID, 65}
RegisteredTypes == {"hid.Descriptor", "StringDescriptor"} \cup CustomDecoders
\* (length, type) headers of the descriptors decoded
RegistryKinds == {<<4, 5>>, <<9, 33>>, <<4, 65>>, <<2, 65>>, <<7, 5>>}

InitRegistry ==
    /\ fd = [s \in Sessions |-> InitFd]
    /\ openFile = [f \in Fds |-> "none"]
    /\ driver = [s \in Sessions |-> [i \in Ifaces |-> FALSE]]
    /\ nOpen = [s \in Sessions |-> 0]
    /\ last = Outcome("none", "A", "nil", 0, NoCall)
    /\ build = "goioctl"
    /\ dec = [phase |-> "registry", regs |-> <<>>, registry |-> descriptorMap,
              data |-> <<>>, result |-> <<>>]

NextRegistry ==
    \/ \E typ \in RegisteredCodes, desc \in RegisteredTypes :
           RegisterDescriptorType(typ, desc)
    \/ \E k \in RegistryKinds : Decode(FrameBytes(k, 1))

SpecRegistry == InitRegistry /\ [][NextRegistry]_vars

(***************************************************************************)
(* Go's bit operators on unsigned integers                                 *)
(***************************************************************************)
RECURSIVE BitAnd(_, _)
BitAnd(a, b) ==
    IF a = 0 \/ b = 0 THEN 0
    ELSE (a % 2) * (b % 2) + 2 * BitAnd(a \div 2, b \div 2)

RECURSIVE BitOr(_, _)
BitOr(a, b) ==
    IF a = 0 THEN b
    ELSE IF b = 0 THEN a
    ELSE (IF a % 2 = 1 \/ b % 2 = 1 THEN 1 ELSE 0) + 2 * BitOr(a \div 2, b \div 2)

\* a >> n
Shr(a, n) == a \div (2 ^ n)

\* a << n in an unsigned integer of w bits
Shl(a, n, w) == (a * (2 ^ n)) % (2 ^ w)

(***************************************************************************)
(* EndpointDescriptor: the accessors of bmAttributes                       *)
(***************************************************************************)
TransferType(b) == BitAnd(b, 3)

SynchronizationType_NoShift(b) == BitAnd(b, 12)

SynchronizationType(b) == Shr(BitAnd(b, 12), 2)

UsageType(b) == Shr(BitAnd(b, 48), 4)

\* an EndpointDescriptor with every value its BmAttributes byte can take
InitEndpoint ==
    /\ fd = [s \in Sessions |-> InitFd]
    /\ openFile = [f \in Fds |-> "none"]
    /\ driver = [s \in Sessions |-> [i \in Ifaces |-> FALSE]]
    /\ nOpen = [s \in Sessions |-> 0]
    /\ last = Outcome("none", "A", "nil", 0, NoCall)
    /\ build = "syscall"
    /\ dec \in {[phase |-> "endpoint", BmAttributes |-> b] : b \in 0 .. 255}

\* the three accessors applied to the descriptor
EndpointAttributes ==
    /\ dec.phase = "endpoint"
    /\ dec' = [phase |-> "attributes",
               BmAttributes |-> dec.BmAttributes,
               TransferType |-> TransferType(dec.BmAttributes),
               SynchronizationType |-> SynchronizationType(dec.BmAttributes),
               UsageType |-> UsageType(dec.BmAttributes)]
    /\ UNCHANGED <<fd, openFile, driver, nOpen, last, build>>

NextEndpoint == EndpointAttributes

SpecEndpoint == InitEndpoint /\ [][NextEndpoint]_vars

(***************************************************************************)
(* Standard device requests                                                *)
(***************************************************************************)
RequestDirectionIn == 128
RequestDirectionOut == 0
RequestTypeStandard == 0
RequestRecipientDevice == 0
RequestRecipientInterface == 1
RequestRecipientEndpoint == 2
RequestRecipientOther == 3

StatusStandard == 0
StatusPTM == 1

\* the request codes of stddevice.go
ReqGetStatus == 0
ReqClearFeature == 1
ReqSetFeature == 3
ReqSetAddress == 5
ReqGetDescriptor == 6
ReqSetDescriptor == 7
ReqGetConfiguration == 8
ReqSetConfiguration == 9
ReqGetInterface == 10
ReqSetInterface == 11
ReqSynchFrame == 12
ReqSetSel == 48
ReqSetIsochDelay == 49

\* the request codes of the older device.go, used by device_std.go
RequestDeviceGetDescriptor == 6
RequestDeviceGetConfiguration == 8
RequestDeviceSetConfiguration == 9
RequestInterfaceGetInterface == 10
RequestInterfaceSetInterface == 17

\* a | b | c of RequestType values
ReqType(direction, typ, recipient) == BitOr(BitOr(direction, typ), recipient)

\* d.Ctrl as the request methods call it: what it returns (or that it
\* panics) and the OS call it made
DeviceCtrl(s, typ, req, value, index, p) ==
    IF SlicePtrPanics(p)
    THEN {[err |-> "panic", n |-> 0, sys |-> NoCall]}
    ELSE LET c == ControlTransfer(HandleArg(s), typ % 256, req, value, index,
                                  DefaultTimeout, p)
         IN  {[err |-> r.err, n |-> r.n, sys |-> <<c>>] :
                 r \in KernelIoctl(c.fd, c.cmd, c.arg)}

\* a request method that ran: the arguments it was called with (in the
\* order of its signature) and what it hands back; ret is its first result
\* ("none" for the methods that return the error only)
StdOutcome(op, s, args, r, ret) ==
    [op |-> op, s |-> s, args |-> args, err |-> r.err, n |-> r.n, sys |-> r.sys,
     ret |-> IF r.err = "panic" THEN "none" ELSE ret]

\* a request method: it hands the error of d.Ctrl on; its first result is
\* retErr when d.Ctrl failed and retOk otherwise
Request(op, s, args, typ, req, value, index, p, retErr, retOk) ==
    \E r \in DeviceCtrl(s, typ, req, value, index, p) :
        /\ last' = StdOutcome(op, s, args, r, IF r.err # "nil" THEN retErr ELSE retOk)
        /\ UNCHANGED <<fd, openFile, driver, nOpen, build, dec>>

ClearFeature(s, recipient, feature, idx) ==
    Request("ClearFeature", s, <<recipient, feature, idx>>,
            ReqType(RequestDirectionOut, RequestTypeStandard, recipient),
            ReqClearFeature, feature % 65536, idx, NilPayload, "none", "none")

GetConfiguration(s) ==
    Request("GetConfiguration", s, <<>>,
            ReqType(RequestDirectionIn, RequestTypeStandard, RequestRecipientDevice),
            ReqGetConfiguration, 0, 0, 1, "value", "value")

\* (uint16(descriptorType) << 8) | uint16(idx)
DescriptorValue(descriptorType, idx) == BitOr(Shl(descriptorType, 8, 16), idx)

GetDescriptor(s, descriptorType, idx, languageID) ==
    \E r \in DeviceCtrl(s, ReqType(RequestDirectionIn, RequestTypeStandard,
                                   RequestRecipientDevice),
                        ReqGetDescriptor, DescriptorValue(descriptorType, idx),
                        languageID, 256) :
        /\ last' = StdOutcome("GetDescriptor", s,
                              <<descriptorType, idx, languageID>>, r,
                              IF r.err # "nil" \/ r.n = 0 THEN "nil" ELSE "bytes")
        /\ UNCHANGED <<fd, openFile, driver, nOpen, build, dec>>

GetInterface(s, interfaceIndex) ==
    Request("GetInterface", s, <<interfaceIndex>>,
            ReqType(RequestDirectionIn, RequestTypeStandard, RequestRecipientInterface),
            ReqGetInterface, 0, interfaceIndex, 1, "value", "value")

GetDeviceStatus(s) ==
    Request("GetDeviceStatus", s, <<>>,
            ReqType(RequestDirectionIn, RequestTypeStandard, RequestRecipientDevice),
            ReqGetStatus, StatusStandard, 0, 2, "nil", "status")

GetDevicePTMStatus_TwoBytes(s) ==
    Request("GetDevicePTMStatus", s, <<>>,
            ReqType(RequestDirectionIn, RequestTypeStandard, RequestRecipientDevice),
            ReqGetStatus, StatusPTM, 0, 2, "nil", "status")

GetDevicePTMStatus(s) ==
    Request("GetDevicePTMStatus", s, <<>>,
            ReqType(RequestDirectionIn, RequestTypeStandard, RequestRecipientDevice),
            ReqGetStatus, StatusPTM, 0, 4, "nil", "status")

GetInterfaceStatus(s, interfaceIndex) ==
    Request("GetInterfaceStatus", s, <<interfaceIndex>>,
            ReqType(RequestDirectionIn, RequestTypeStandard, RequestRecipientInterface),
            ReqGetStatus, StatusStandard, interfaceIndex, 2, "nil", "status")

GetEndpointStatus(s, endpoint) ==
    Request("GetEndpointStatus", s, <<endpoint>>,
            ReqType(RequestDirectionIn, RequestTypeStandard, RequestRecipientEndpoint),
            ReqGetStatus, StatusStandard, endpoint, 2, "nil", "status")

SetAddress(s, address) ==
    Request("SetAddress", s, <<address>>,
            ReqType(RequestDirectionOut, RequestTypeStandard, RequestRecipientDevice),
            ReqSetAddress, address, 0, NilPayload, "none", "none")

SetConfiguration(s, configurationValue) ==
    Request("SetConfiguration", s, <<configurationValue>>,
            ReqType(RequestDirectionOut, RequestTypeStandard, RequestRecipientDevice),
            ReqSetConfiguration, configurationValue % 65536, 0, NilPayload,
            "none", "none")

SetDescriptor(s, descriptorType, idx, languageID, descriptorData) ==
    Request("SetDescriptor", s, <<descriptorType, idx, languageID, descriptorData>>,
            ReqType(RequestDirectionOut, RequestTypeStandard, RequestRecipientDevice),
            ReqSetDescriptor, DescriptorValue(descriptorType, idx), languageID,
            descriptorData, "none", "none")

wIndex_Plain(options, idx) == idx

\* uint16(options)<<8 | uint16(idx)
wIndex(options, idx) == BitOr(Shl(options, 8, 16), idx)

SetFeature(s, recipient, feature, options, idx) ==
    Request("SetFeature", s, <<recipient, feature, options, idx>>,
            ReqType(RequestDirectionOut, RequestTypeStandard, recipient),
            ReqSetFeature, feature % 65536, wIndex(options, idx), NilPayload,
            "none", "none")

SetInterface(s, interfaceIndex, setting) ==
    Request("SetInterface", s, <<interfaceIndex, setting>>,
            ReqType(RequestDirectionOut, RequestTypeStandard, RequestRecipientInterface),
            ReqSetInterface, setting % 65536, interfaceIndex, NilPayload,
            "none", "none")

SetIsochronousDelay(s, delay) ==
    Request("SetIsochronousDelay", s, <<delay>>,
            ReqType(RequestDirectionOut, RequestTypeStandard, RequestRecipientDevice),
            ReqSetIsochDelay, delay, 0, NilPayload, "none", "none")

SetSEL(s) ==
    Request("SetSEL", s, <<>>,
            ReqType(RequestDirectionOut, RequestTypeStandard, RequestRecipientDevice),
            ReqSetSel, 0, 0, 6, "none", "none")

SyncFrame(s, endpoint) ==
    Request("SyncFrame", s, <<endpoint>>,
            ReqType(RequestDirectionIn, RequestTypeStandard, RequestRecipientEndpoint),
            ReqSynchFrame, 0, endpoint, 2, "none", "none")

(***************************************************************************)
(* The status record GetDevicePTMStatus builds from the response           *)
(***************************************************************************)
\* a decoder that takes LDMValid from bit 1
DevicePTMStatus_ValidFromBitOne(data) ==
    [LDMValid |-> BitAnd(data[1], Shl(1, 1, 8)) > 0,
     LDMEnabled |-> BitAnd(data[1], Shl(1, 0, 8)) > 0,
     LDMLinkDelay |-> BitOr(Shl(BitAnd(data[4], 255), 8, 16), BitAnd(data[3], 255))]

\* res := &DevicePTMStatus{...}; data[i] of the code is data[i + 1] here
DevicePTMStatus(data) ==
    [LDMValid |-> BitAnd(data[1], Shl(1, 0, 8)) > 0,
     LDMEnabled |-> BitAnd(data[1], Shl(1, 0, 8)) > 0,
     LDMLinkDelay |-> BitOr(Shl(BitAnd(data[4], 255), 8, 16), BitAnd(data[3], 255))]

\* the responses drawn: every first byte, three values of each other byte
PTMResponses ==
    {<<a, b, c, d>> : a \in 0 .. 255, b \in {0, 255}, c \in {0, 1, 255}, d \in {0, 1, 255}}

InitPTM ==
    /\ fd = [s \in Sessions |-> InitFd]
    /\ openFile = [f \in Fds |-> "none"]
    /\ driver = [s \in Sessions |-> [i \in Ifaces |-> FALSE]]
    /\ nOpen = [s \in Sessions |-> 0]
    /\ last = Outcome("none", "A", "nil", 0, NoCall)
    /\ build = "goioctl"
    /\ dec \in {[phase |-> "response", data |-> d] : d \in PTMResponses}

\* GetDevicePTMStatus after d.Ctrl returned without error
DecodePTMStatus ==
    /\ dec.phase = "response"
    /\ dec' = [phase |-> "status", data |-> dec.data, status |-> DevicePTMStatus(dec.data)]
    /\ UNCHANGED <<fd, openFile, driver, nOpen, last, build>>

NextPTM == DecodePTMStatus

SpecPTM == InitPTM /\ [][NextPTM]_vars

(***************************************************************************)
(* The request methods of the older device_std.go                          *)
(***************************************************************************)
\* GetDescriptor(descriptorType, idx): the index field is the literal 0
GetDescriptorOld(s, descriptorType, idx) ==
    Request("GetDescriptorOld", s, <<descriptorType, idx>>,
            RequestDirectionIn, RequestDeviceGetDescriptor,
            DescriptorValue(descriptorType, idx), 0, 256, "nil", "descriptor")

\* idx and size are uint16 here; make([]byte, size) is never nil
GetDescriptorData(s, descriptorType, idx, size) ==
    Request("GetDescriptorData", s, <<descriptorType, idx, size>>,
            RequestDirectionIn, RequestDeviceGetDescriptor,
            DescriptorValue(descriptorType, idx), 0, size, "bytes", "bytes")

GetConfigurationOld(s) ==
    Request("GetConfigurationOld", s, <<>>,
            RequestDirectionIn,
            RequestDeviceGetConfiguration, 0, 0, 1, "value", "value")

SetConfigurationOld(s, ci) ==
    Request("SetConfigurationOld", s, <<ci>>,
            RequestDirectionOut,
            RequestDeviceSetConfiguration, ci % 65536, 0, NilPayload, "none", "none")

GetAltInterface(s, interfaceIndex) ==
    Request("GetAltInterface", s, <<interfaceIndex>>,
            BitOr(RequestDirectionIn, RequestRecipientInterface),
            RequestInterfaceGetInterface, 0, interfaceIndex % 65536, 1,
            "value", "value")

SetAltInterface(s, interfaceIndex, setting) ==
    Request("SetAltInterface", s, <<interfaceIndex, setting>>,
            BitOr(RequestDirectionOut, RequestRecipientInterface),
            RequestInterfaceSetInterface, setting % 65536, interfaceIndex % 65536,
            NilPayload, "none", "none")

\* ParseDescriptor of the older revision: header, then createDescriptor on
\* the rest of the buffer
ParseDescriptor(data) ==
    LET h == readDescriptorHeader(data, 0)
    IN  IF h.err # "nil" THEN [desc |-> <<>>, err |-> h.err]
        ELSE [desc |-> readDescriptor(h.hdr, data, h.pos, TRUE).desc, err |-> "nil"]

\* buff := make([]byte, 256) of GetDescriptor
DescriptorBufferSize == 256

\* the capacity of the slice ioutil.ReadAll returns for a reader of at most
\* 254 bytes: the 512 bytes it allocates first
ReadAllCap == 512

\* the buffer after a transfer that returned n: the bytes the device sent
\* in front, the zeros of make behind
ResponseBuffer(response, n) ==
    [i \in 1 .. DescriptorBufferSize |->
        IF i <= Len(response) /\ i <= n THEN response[i] ELSE 0]

\* desc.(*StringDescriptor) and strDesc.Data[0 : strDesc.Length-2]: the type
\* assertion has no ok result, the subtraction is in uint8, the slice
\* expression may run up to the capacity of Data
StringOf(desc) ==
    IF desc.kind # "StringDescriptor" THEN [err |-> "panic", ret |-> "none", length |-> 0]
    ELSE IF BodySize(desc.hdr) > ReadAllCap
    THEN [err |-> "panic", ret |-> "none", length |-> 0]
    ELSE [err |-> "nil", ret |-> "string", length |-> BodySize(desc.hdr)]

\* GetStringDescriptor(idx): GetDescriptor(DescriptorTypeString, idx), then the
\* string is cut out of the descriptor that came back; response is what the
\* device answers
GetStringDescriptor(s, idx, response) ==
    \E r \in DeviceCtrl(s, RequestDirectionIn, RequestDeviceGetDescriptor,
                        DescriptorValue(DescriptorTypeString, idx), 0,
                        DescriptorBufferSize) :
        LET d == ParseDescriptor(ResponseBuffer(response, r.n))
            res == IF r.err # "nil" THEN [err |-> r.err, ret |-> "", length |-> 0]
                   ELSE IF d.err # "nil" THEN [err |-> d.err, ret |-> "", length |-> 0]
                   ELSE StringOf(d.desc)
        IN  /\ last' = [op |-> "GetStringDescriptor", s |-> s, args |-> <<idx>>,
                        err |-> res.err, n |-> r.n, sys |-> r.sys, ret |-> res.ret,
                        length |-> res.length,
                        response |-> IF r.err = "nil" /\ r.n > 0 THEN response ELSE <<>>]
            /\ UNCHANGED <<fd, openFile, driver, nOpen, build, dec>>

(***************************************************************************)
(* The specification of the request methods                                *)
(***************************************************************************)
\* (length, type) headers of the descriptors a device answers a request for
\* a string descriptor with
ResponseKinds == {<<4, 3>>, <<2, 3>>, <<1, 3>>, <<0, 3>>, <<4, 5>>, <<6, 153>>}
\* arguments drawn for the request methods
DescTypes == {DescriptorTypeDevice, DescriptorTypeString, 15, 255}
DescIdxs == {0, 2, 255}
LangIds == {0, 1033, 65535}
Recipients == {RequestRecipientDevice, RequestRecipientInterface,
               RequestRecipientEndpoint, RequestRecipientOther}
\* the recipient parameter is a RequestType, a uint8: a caller can pass any
\* RequestType value, here RequestDirectionIn|RequestRecipientEndpoint too
RecipientArgs == Recipients \cup {RequestDirectionIn + RequestRecipientEndpoint}
Features == {0, 53}
SuspendOptions == {0, 3}
RecipientIdxs == {0, 129}
InterfaceIdxs == {0, 1}
AltSettings == {0, 1}
ConfigValues == {1}
Addresses == {5}
Delays == {40}
BufferSizes == {0, 18}
\* the Device the requests are sent through
StdSessions == {"A"}

InitStd ==
    /\ fd = [s \in Sessions |-> InitFd]
    /\ openFile = [f \in Fds |-> "none"]
    /\ driver = [s \in Sessions |-> [i \in Ifaces |-> FALSE]]
    /\ nOpen = [s \in Sessions |-> 0]
    /\ last = Outcome("none", "A", "nil", 0, NoCall)
    /\ build = "goioctl"
    /\ dec = DecIdle

GetDescriptorRequest(s) ==
    \/ \E t \in DescTypes, i \in DescIdxs, l \in LangIds : GetDescriptor(s, t, i, l)
    \/ \E t \in DescTypes, i \in DescIdxs : GetDescriptorOld(s, t, i)
    \/ \E t \in DescTypes, i \in DescIdxs, z \in BufferSizes :
           GetDescriptorData(s, t, i, z)
    \/ \E i \in DescIdxs, k \in ResponseKinds :
           GetStringDescriptor(s, i, FrameBytes(k, 1))

FeatureRequest(s) ==
    \/ \E r \in RecipientArgs, f \in Features, o \in SuspendOptions,
          i \in RecipientIdxs :
           SetFeature(s, r, f, o, i)
    \/ \E r \in RecipientArgs, f \in Features, i \in RecipientIdxs :
           ClearFeature(s, r, f, i)

StatusRequest(s) ==
    \/ GetDeviceStatus(s)
    \/ GetDevicePTMStatus(s)
    \/ \E i \in InterfaceIdxs : GetInterfaceStatus(s, i)
    \/ \E e \in RecipientIdxs : GetEndpointStatus(s, e)

AltSettingRequest(s) ==
    \/ \E i \in InterfaceIdxs, a \in AltSettings : SetInterface(s, i, a)
    \/ \E i \in InterfaceIdxs, a \in AltSettings : SetAltInterface(s, i, a)

OtherRequest(s) ==
    \/ GetConfiguration(s)
    \/ GetConfigurationOld(s)
    \/ \E c \in ConfigValues : SetConfiguration(s, c)
    \/ \E c \in ConfigValues : SetConfigurationOld(s, c)
    \/ \E i \in InterfaceIdxs : GetInterface(s, i)
    \/ \E i \in InterfaceIdxs : GetAltInterface(s, i)
    \/ \E a \in Addresses : SetAddress(s, a)
    \/ \E t \in DescTypes, i \in DescIdxs, l \in LangIds, p \in {NilPayload, 0, 18} :
           SetDescriptor(s, t, i, l, p)
    \/ \E d \in Delays : SetIsochronousDelay(s, d)
    \/ SetSEL(s)
    \/ \E e \in RecipientIdxs : SyncFrame(s, e)

NextStd ==
    \E s \in StdSessions :
        \/ Open(s)
        \/ Close(s)
        \/ GetDescriptorRequest(s)
        \/ FeatureRequest(s)
        \/ StatusRequest(s)
        \/ AltSettingRequest(s)
        \/ OtherRequest(s)

SpecStd == InitStd /\ [][NextStd]_vars

(***************************************************************************)
(* usbdevfs command numbers                                                *)
(***************************************************************************)
\* A command number is a uintptr with more bits than the integers of the
\* checker: it is kept as <<high, low>>, the two 16-bit halves of its low 32
\* bits.  The arguments drawn are below 2^16 (dir below 4), so no bit of a
\* number lies above them.
iocNrBits == 8
iocTypeBits == 8
iocSizeBits == 14
iocDirBits == 2
iocNrShift == 0
iocTypeShift == iocNrShift + iocNrBits
iocSizeShift == iocTypeShift + iocTypeBits
iocDirShift == iocSizeShift + iocSizeBits
iocNone == 0
iocWrite == 1
iocRead == 2

HalfBits == 16
Half == 2 ^ HalfBits

\* x << n of a uintptr
ShlWord(x, n) ==
    IF n < HalfBits
    THEN <<(x * 2 ^ n) \div Half, (x * 2 ^ n) % Half>>
    ELSE <<x * 2 ^ (n - HalfBits), 0>>

\* a | b of uintptrs
OrWord(a, b) == <<BitOr(a[1], b[1]), BitOr(a[2], b[2])>>

\* _IOC of ioctl_test.go; the IO, IOR, IOW and IOWR of the goioctl package
\* the command variables are initialised with are these
IOC(dir, t, nr, size) ==
    OrWord(OrWord(OrWord(ShlWord(dir, iocDirShift), ShlWord(t, iocTypeShift)),
                  ShlWord(nr, iocNrShift)),
           ShlWord(size, iocSizeShift))

IO(t, nr) == IOC(iocNone, t, nr, 0)
IOR(t, nr, size) == IOC(iocRead, t, nr, size)
IOW(t, nr, size) == IOC(iocWrite, t, nr, size)
IOWR(t, nr, size) == IOC(BitOr(iocRead, iocWrite), t, nr, size)

\* the rune 'U'
TypeU == 85

\* unsafe.Sizeof on the 64-bit builds the numbers of the test are written
\* for: <<n, z>> is a field of n elements of z bytes, aligned to z
PtrSize == 8
uint8 == <<1, 1>>
uint16 == <<1, 2>>
uint32 == <<1, 4>>
int32 == <<1, 4>>
uintptr == <<1, PtrSize>>
ByteArray(n) == <<n, 1>>

\* no padding in front of a field or behind the last
AlignUp_Packed(off, a) == off

\* the next multiple of a from off on
AlignUp(off, a) == ((off + a - 1) \div a) * a

RECURSIVE EndOffset(_, _, _)
EndOffset(fields, i, off) ==
    IF i > Len(fields) THEN off
    ELSE EndOffset(fields, i + 1, AlignUp(off, fields[i][2]) + fields[i][1] * fields[i][2])

RECURSIVE MaxAlign(_)
MaxAlign(fields) ==
    IF fields = <<>> THEN 1
    ELSE LET m == MaxAlign(Tail(fields))
         IN  IF Head(fields)[2] > m THEN Head(fields)[2] ELSE m

Sizeof(fields) == AlignUp(EndOffset(fields, 1, 0), MaxAlign(fields))

nUSBDEVFS_MAXDRIVERNAME == 255

\* the records of ioctl.go and the two scalars a command can take, by the
\* name unsafe.Sizeof is applied to
OperandFields ==
    ("usbdevfs_ctrltransfer" :>
         <<uint8, uint8, uint16, uint16, uint16, uint32, uintptr>>)
    @@ ("usbdevfs_bulktransfer" :> <<uint32, uint32, uint32, uintptr>>)
    @@ ("usbdevfs_setinterface" :> <<uint32, uint32>>)
    @@ ("usbdevfs_getdriver" :> <<uint32, ByteArray(nUSBDEVFS_MAXDRIVERNAME + 1)>>)
    @@ ("usbdevfs_urb" :>
         <<uint8, uint8, int32, uint32, uintptr, int32, int32, int32, uint32, int32,
           uint32, uintptr>>)
    @@ ("usbdevfs_disconnectsignal" :> <<uint32, uintptr>>)
    @@ ("usbdevfs_connectinfo" :> <<uint32, uint8>>)
    @@ ("usbdevfs_ioctl" :> <<uint32, uint32, uintptr>>)
    @@ ("usbdevfs_hub_portinfo" :> <<uint8, ByteArray(127)>>)
    @@ ("usbdevfs_disconnect_claim" :>
         <<uint32, uint32, ByteArray(nUSBDEVFS_MAXDRIVERNAME + 1)>>)
    @@ ("usbdevfs_streams" :> <<uint32, uint32>>)
    @@ ("uint32" :> <<uint32>>)
    @@ ("uintptr" :> <<uintptr>>)

\* the command variables: constructor, number and operand of each
ctl_usbdevfs ==
    ("ctl_usbdevfs_control" :> <<"IOWR", 0, "usbdevfs_ctrltransfer">>)
    @@ ("ctl_usbdevfs_bulk" :> <<"IOWR", 2, "usbdevfs_bulktransfer">>)
    @@ ("ctl_usbdevfs_resetep" :> <<"IOR", 3, "uint32">>)
    @@ ("ctl_usbdevfs_setinterface" :> <<"IOR", 4, "usbdevfs_setinterface">>)
    @@ ("ctl_usbdevfs_setconfiguration" :> <<"IOR", 5, "uint32">>)
    @@ ("ctl_usbdevfs_getdriver" :> <<"IOW", 8, "usbdevfs_getdriver">>)
    @@ ("ctl_usbdevfs_submiturb" :> <<"IOR", 10, "usbdevfs_urb">>)
    @@ ("ctl_usbdevfs_discardurb" :> <<"IO", 11, "none">>)
    @@ ("ctl_usbdevfs_reapurb" :> <<"IOW", 12, "uintptr">>)
    @@ ("ctl_usbdevfs_reapurbndelay" :> <<"IOW", 13, "uintptr">>)
    @@ ("ctl_usbdevfs_discsignal" :> <<"IOR", 14, "usbdevfs_disconnectsignal">>)
    @@ ("ctl_usbdevfs_claiminterface" :> <<"IOR", 15, "uint32">>)
    @@ ("ctl_usbdevfs_releaseinterface" :> <<"IOR", 16, "uint32">>)
    @@ ("ctl_usbdevfs_connectionfo" :> <<"IOW", 17, "usbdevfs_connectinfo">>)
    @@ ("ctl_usbdevfs_ioctl" :> <<"IOWR", 18, "usbdevfs_ioctl">>)
    @@ ("ctl_usbdevfs_portinfo" :> <<"IOR", 19, "usbdevfs_hub_portinfo">>)
    @@ ("ctl_usbdevfs_reset" :> <<"IO", 20, "none">>)
    @@ ("ctl_usbdevfs_clear_halt" :> <<"IOR", 21, "uint32">>)
    @@ ("ctl_usbdevfs_disconnect" :> <<"IO", 22, "none">>)
    @@ ("ctl_usbdevfs_connect" :> <<"IO", 23, "none">>)
    @@ ("ctl_usbdevfs_claim_port" :> <<"IOR", 24, "uint32">>)
    @@ ("ctl_usbdevfs_release_port" :> <<"IOR", 25, "uint32">>)
    @@ ("ctl_usbdevfs_get_capabilities" :> <<"IOR", 26, "uint32">>)
    @@ ("ctl_usbdevfs_disconnect_claim" :> <<"IOR", 27, "usbdevfs_disconnect_claim">>)
    @@ ("ctl_usbdevfs_alloc_streams" :> <<"IOR", 28, "usbdevfs_streams">>)
    @@ ("ctl_usbdevfs_free_streams" :> <<"IOR", 29, "usbdevfs_streams">>)
    @@ ("ctl_usbdevfs_drop_privileges" :> <<"IOW", 30, "uint32">>)
    @@ ("ctl_usbdevfs_get_speed" :> <<"IO", 31, "none">>)

\* the kernel's name of each command variable
KernelName ==
    ("ctl_usbdevfs_control" :> "USBDEVFS_CONTROL")
    @@ ("ctl_usbdevfs_bulk" :> "USBDEVFS_BULK")
    @@ ("ctl_usbdevfs_resetep" :> "USBDEVFS_RESETEP")
    @@ ("ctl_usbdevfs_setinterface" :> "USBDEVFS_SETINTERFACE")
    @@ ("ctl_usbdevfs_setconfiguration" :> "USBDEVFS_SETCONFIGURATION")
    @@ ("ctl_usbdevfs_getdriver" :> "USBDEVFS_GETDRIVER")
    @@ ("ctl_usbdevfs_submiturb" :> "USBDEVFS_SUBMITURB")
    @@ ("ctl_usbdevfs_discardurb" :> "USBDEVFS_DISCARDURB")
    @@ ("ctl_usbdevfs_reapurb" :> "USBDEVFS_REAPURB")
    @@ ("ctl_usbdevfs_reapurbndelay" :> "USBDEVFS_REAPURBNDELAY")
    @@ ("ctl_usbdevfs_discsignal" :> "USBDEVFS_DISCSIGNAL")
    @@ ("ctl_usbdevfs_claiminterface" :> "USBDEVFS_CLAIMINTERFACE")
    @@ ("ctl_usbdevfs_releaseinterface" :> "USBDEVFS_RELEASEINTERFACE")
    @@ ("ctl_usbdevfs_connectionfo" :> "USBDEVFS_CONNECTINFO")
    @@ ("ctl_usbdevfs_ioctl" :> "USBDEVFS_IOCTL")
    @@ ("ctl_usbdevfs_portinfo" :> "USBDEVFS_HUB_PORTINFO")
    @@ ("ctl_usbdevfs_reset" :> "USBDEVFS_RESET")
    @@ ("ctl_usbdevfs_clear_halt" :> "USBDEVFS_CLEAR_HALT")
    @@ ("ctl_usbdevfs_disconnect" :> "USBDEVFS_DISCONNECT")
    @@ ("ctl_usbdevfs_connect" :> "USBDEVFS_CONNECT")
    @@ ("ctl_usbdevfs_claim_port" :> "USBDEVFS_CLAIM_PORT")
    @@ ("ctl_usbdevfs_release_port" :> "USBDEVFS_RELEASE_PORT")
    @@ ("ctl_usbdevfs_get_capabilities" :> "USBDEVFS_GET_CAPABILITIES")
    @@ ("ctl_usbdevfs_disconnect_claim" :> "USBDEVFS_DISCONNECT_CLAIM")
    @@ ("ctl_usbdevfs_alloc_streams" :> "USBDEVFS_ALLOC_STREAMS")
    @@ ("ctl_usbdevfs_free_streams" :> "USBDEVFS_FREE_STREAMS")
    @@ ("ctl_usbdevfs_drop_privileges" :> "USBDEVFS_DROP_PRIVILEGES")
    @@ ("ctl_usbdevfs_get_speed" :> "USBDEVFS_GET_SPEED")

\* the numbers of usbdevice_fs.h as the test lists them
target ==
    ("USBDEVFS_CONTROL" :> <<49176, 21760>>)
    @@ ("USBDEVFS_BULK" :> <<49176, 21762>>)
    @@ ("USBDEVFS_RESETEP" :> <<32772, 21763>>)
    @@ ("USBDEVFS_SETINTERFACE" :> <<32776, 21764>>)
    @@ ("USBDEVFS_SETCONFIGURATION" :> <<32772, 21765>>)
    @@ ("USBDEVFS_GETDRIVER" :> <<16644, 21768>>)
    @@ ("USBDEVFS_SUBMITURB" :> <<32824, 21770>>)
    @@ ("USBDEVFS_DISCARDURB" :> <<0, 21771>>)
    @@ ("USBDEVFS_REAPURB" :> <<16392, 21772>>)
    @@ ("USBDEVFS_REAPURBNDELAY" :> <<16392, 21773>>)
    @@ ("USBDEVFS_DISCSIGNAL" :> <<32784, 21774>>)
    @@ ("USBDEVFS_CLAIMINTERFACE" :> <<32772, 21775>>)
    @@ ("USBDEVFS_RELEASEINTERFACE" :> <<32772, 21776>>)
    @@ ("USBDEVFS_CONNECTINFO" :> <<16392, 21777>>)
    @@ ("USBDEVFS_IOCTL" :> <<49168, 21778>>)
    @@ ("USBDEVFS_HUB_PORTINFO" :> <<32896, 21779>>)
    @@ ("USBDEVFS_RESET" :> <<0, 21780>>)
    @@ ("USBDEVFS_CLEAR_HALT" :> <<32772, 21781>>)
    @@ ("USBDEVFS_DISCONNECT" :> <<0, 21782>>)
    @@ ("USBDEVFS_CONNECT" :> <<0, 21783>>)
    @@ ("USBDEVFS_CLAIM_PORT" :> <<32772, 21784>>)
    @@ ("USBDEVFS_RELEASE_PORT" :> <<32772, 21785>>)
    @@ ("USBDEVFS_GET_CAPABILITIES" :> <<32772, 21786>>)
    @@ ("USBDEVFS_DISCONNECT_CLAIM" :> <<33032, 21787>>)
    @@ ("USBDEVFS_ALLOC_STREAMS" :> <<32776, 21788>>)
    @@ ("USBDEVFS_FREE_STREAMS" :> <<32776, 21789>>)
    @@ ("USBDEVFS_DROP_PRIVILEGES" :> <<16388, 21790>>)
    @@ ("USBDEVFS_GET_SPEED" :> <<0, 21791>>)

\* the initialiser of command variable v
CommandNumber(v) ==
    LET c == ctl_usbdevfs[v]
        size == IF c[3] = "none" THEN 0 ELSE Sizeof(OperandFields[c[3]])
    IN  IF c[1] = "IO" THEN IO(TypeU, c[2])
        ELSE IF c[1] = "IOR" THEN IOR(TypeU, c[2], size)
        ELSE IF c[1] = "IOW" THEN IOW(TypeU, c[2], size)
        ELSE IOWR(TypeU, c[2], size)

\* arguments drawn for _IOC
IocDirs == 0 .. 3
IocTypes == {TypeU, 255}
IocNrs == {0, 31, 255}
IocSizes == {0, 1, 24, 2 ^ iocSizeBits - 1, 2 ^ iocSizeBits}

InitIoctl ==
    /\ fd = [s \in Sessions |-> InitFd]
    /\ openFile = [f \in Fds |-> "none"]
    /\ driver = [s \in Sessions |-> [i \in Ifaces |-> FALSE]]
    /\ nOpen = [s \in Sessions |-> 0]
    /\ last = Outcome("none", "A", "nil", 0, NoCall)
    /\ build = "goioctl"
    /\ dec \in {[phase |-> "var", name |-> v] : v \in DOMAIN ctl_usbdevfs}
               \cup {[phase |-> "call", dir |-> d, t |-> t, nr |-> nr, size |-> z] :
                        d \in IocDirs, t \in IocTypes, nr \in IocNrs, z \in IocSizes}

\* package initialisation gives a command variable its number
InitCommand ==
    /\ dec.phase = "var"
    /\ dec' = [phase |-> "command", name |-> dec.name, number |-> CommandNumber(dec.name)]
    /\ UNCHANGED <<fd, openFile, driver, nOpen, last, build>>

\* a call of _IOC
ComposeNumber ==
    /\ dec.phase = "call"
    /\ dec' = [phase |-> "number", dir |-> dec.dir, t |-> dec.t, nr |-> dec.nr,
               size |-> dec.size, number |-> IOC(dec.dir, dec.t, dec.nr, dec.size)]
    /\ UNCHANGED <<fd, openFile, driver, nOpen, last, build>>

NextIoctl == InitCommand \/ ComposeNumber

SpecIoctl == InitIoctl /\ [][NextIoctl]_vars

(***************************************************************************)
(* Properties of the Device session                                        *)
(***************************************************************************)
\* descriptors the kernel holds open on the device file of session s
Held(s) == {f \in Fds : openFile[f] = s}

\* C1: Open() on a session that is already open returns "device already
\* open", performs no OS open, and leaves the handle of the first Open
\* unchanged and still open in the kernel.
C1_SecondOpenRejected ==
    [][\A s \in Sessions :
          (IsOpen(s) /\ Open(s)) =>
              /\ last'.err = "device already open"
              /\ last'.sys = NoCall
              /\ fd'[s] = fd[s]
              /\ openFile' = openFile
              /\ openFile'[fd'[s]] = s]_vars

C1_Witness ==
    /\ last.op = "Open"
    /\ last.err = "device already open"
    /\ IsOpen(last.s)
    /\ ValidFd(fd[last.s])

\* C2: a transfer (Ctrl, CtrlTimeout, Bulk, BulkTimeout) invoked while the
\* session is Closed fails with a session-state error raised locally: it
\* returns an error and no call has been issued to the operating system.
C2_ClosedTransferFailsLocally ==
    [][\A s \in Sessions :
          (~IsOpen(s) /\ Transfer(s)) =>
              /\ last'.err \notin {"nil", "panic"}
              /\ last'.sys = NoCall]_vars

\* C3: whatever Open, Close and transfer calls ran, failed ones included, a
\* session holds at most one kernel descriptor, holds one exactly when
\* IsOpen() is true, and every descriptor it acquired is the one in its
\* handle or has been released.
C3_OneResourceIffOpen ==
    \A s \in Sessions :
        /\ Cardinality(Held(s)) <= 1
        /\ IsOpen(s) <=> Held(s) # {}
        /\ Held(s) \subseteq {fd[s]}

C3_Witness ==
    /\ last.op = "Close"
    /\ last.err = "EINTR"
    /\ nOpen[last.s] >= 2
    /\ ~IsOpen(last.s)
    /\ \E t \in Sessions : IsOpen(t)

\* C4: Close always leaves the session Closed (handle -1) whatever the OS
\* close returned, and Close on a session that is already Closed changes
\* nothing and releases no descriptor.
C4_CloseIdempotent ==
    [][\A s \in Sessions :
          Close(s) =>
              /\ fd'[s] = -1
              /\ ~IsOpen(s) => /\ fd' = fd
                               /\ openFile' = openFile
                               /\ driver' = driver
                               /\ nOpen' = nOpen]_vars

C4_Witness ==
    /\ last.op = "Close"
    /\ last.err = "EBADF"
    /\ nOpen[last.s] >= 1
    /\ ~IsOpen(last.s)
    /\ \E f \in Fds : openFile[f] # "none"

\* C5: a session that was opened and closed can be opened again: Open is
\* not rejected as already open and, when the OS open succeeds, the session
\* is Open again; a session that was never opened is Closed.
C5_Reopen ==
    /\ [](\A s \in Sessions : nOpen[s] = 0 => ~IsOpen(s))
    /\ [][\A s \in Sessions :
            (/\ nOpen[s] >= 1
             /\ ~IsOpen(s) \/ (last.op = "Close" /\ last.s = s)
             /\ Open(s)) =>
                /\ last'.err # "device already open"
                /\ last'.err = "nil" => fd'[s] # -1]_vars

C5_Witness ==
    /\ last.op = "Open"
    /\ last.err = "nil"
    /\ nOpen[last.s] >= 2
    /\ IsOpen(last.s)

\* C6: AttachKernel and DetachKernel invoked on a Closed session fail and
\* change the driver binding of no device.
C6_DriverControlNeedsOpen ==
    [][\A s \in Sessions :
          (~IsOpen(s) /\ DriverControl(s)) =>
              /\ last'.err # "nil"
              /\ driver' = driver]_vars

C6_Witness ==
    /\ last.op \in {"DetachKernel", "AttachKernel"}
    /\ ~IsOpen(last.s)
    /\ last.err # "nil"
    /\ build = "syscall"
    /\ \E t \in Sessions : IsOpen(t) /\ driver[t][0]

TransferOps == {"Ctrl", "CtrlTimeout", "Bulk", "BulkTimeout"}

ZeroLengthTransfer(s) ==
    \E p \in {NilPayload, 0} :
        \/ \E q \in CtrlRequests : Ctrl(s, q[1], q[2], q[3], q[4], p)
        \/ \E q \in CtrlRequests, timeout \in Timeouts :
               CtrlTimeout(s, q[1], q[2], q[3], q[4], p, timeout)
        \/ \E ep \in Endpoints : Bulk(s, ep, p)
        \/ \E ep \in Endpoints, timeout \in Timeouts : BulkTimeout(s, ep, p, timeout)

\* C19: a control or bulk transfer with a zero-length buffer, nil or empty,
\* does not panic: the command record is issued with length 0 and the call
\* returns a result or an error.
C19_ZeroLengthBufferValid ==
    [][\A s \in Sessions :
          ZeroLengthTransfer(s) =>
              /\ last'.err # "panic"
              /\ Len(last'.sys) = 1
              /\ last'.sys[1].arg.Length = 0]_vars

\* C20: a control transfer whose payload is longer than 65535 bytes is
\* rejected before any OS call is issued, and the length field of an issued
\* control record equals the length of the payload.
C20_OversizedPayloadRejected ==
    [][\A s \in Sessions, q \in CtrlRequests, p \in Payloads :
          (\/ Ctrl(s, q[1], q[2], q[3], q[4], p)
           \/ \E timeout \in Timeouts :
                  CtrlTimeout(s, q[1], q[2], q[3], q[4], p, timeout)) =>
              /\ PayloadLen(p) > 65535 =>
                     last'.sys = NoCall /\ last'.err \notin {"nil", "panic"}
              /\ last'.sys # NoCall =>
                     last'.sys[1].arg.Length = PayloadLen(p)]_vars

(***************************************************************************)
(* Properties of the descriptor stream decoders                            *)
(***************************************************************************)
\* The framing of a stream by the declared lengths alone: the offsets of the
\* complete descriptors, and how the stream ends.
RECURSIVE Walk(_, _, _)
Walk(buf, p, starts) ==
    IF p = Len(buf) THEN [starts |-> starts, end |-> "clean", at |-> p]
    ELSE IF p + 1 = Len(buf) THEN [starts |-> starts, end |-> "cutHeader", at |-> p]
    ELSE IF buf[p + 1] < 2 THEN [starts |-> starts, end |-> "badLength", at |-> p]
    ELSE IF p + buf[p + 1] > Len(buf)
    THEN [starts |-> starts, end |-> "shortBody", at |-> p]
    ELSE Walk(buf, p + buf[p + 1], Append(starts, p))

Framing == Walk(dec.stream, 0, <<>>)

Range(f) == {f[i] : i \in DOMAIN f}

HasTrailingArray(d) == d.kind \in {"StringDescriptor", "UnknownDescriptor"}

\* C7: decoding ends without error when the stream is exhausted exactly at
\* a header boundary, and with an error when it is exhausted inside a
\* descriptor (header cut after one byte, or body shorter than declared).
C7_EndOfStreamBoundary ==
    dec.phase = "done" =>
        /\ Framing.end = "clean" => dec.err = "nil"
        /\ Framing.end \in {"cutHeader", "shortBody"} => dec.err # "nil"

\* C8: a header whose length field is below 2 makes the decoder report an
\* error and discard the rest of the stream; no descriptor is emitted for
\* such a header or for anything after it.
C8_LengthBelowTwoIsError ==
    (dec.phase = "done" /\ Framing.end = "badLength") =>
        /\ dec.err # "nil"
        /\ \A i \in DOMAIN dec.out :
              dec.out[i].hdr.Length >= 2 /\ dec.offs[i] < Framing.at

\* C9: the trailing byte array of a String or Unknown descriptor holds
\* exactly the bytes of its own body, and the descriptors that follow it in
\* the stream are still delivered.
C9_TrailingArrayStaysInBody ==
    dec.phase = "done" =>
        \A i \in DOMAIN dec.out :
            (HasTrailingArray(dec.out[i]) /\ dec.offs[i] \in Range(Framing.starts)) =>
                /\ dec.out[i].Data =
                       SubSeq(dec.stream, dec.offs[i] + 3,
                              dec.offs[i] + dec.out[i].hdr.Length)
                /\ \A q \in Range(Framing.starts) :
                       q > dec.offs[i] => q \in Range(dec.offs)

\* the stream holds descriptors of fixed layout only
FixedLayoutOnly ==
    \A q \in Range(Framing.starts) :
        dec.stream[q + 2] \in DOMAIN descriptorMap \ {DescriptorTypeString}

\* C10: in a stream of well-framed fixed-layout descriptors every header is
\* read at (start of the previous descriptor + its declared length), whatever
\* the number of bytes the struct fields consumed.
C10_NextHeaderAtDeclaredLength ==
    (dec.phase = "done" /\ Framing.end = "clean" /\ FixedLayoutOnly) =>
        dec.offs = Framing.starts

\* C11: a descriptor whose type code has no registered schema decodes to the
\* Unknown variant; its header carries the length and type code of the
\* stream and its data is exactly the (length - 2) bytes of its own body.
C11_UnknownCarriesOwnBody ==
    dec.phase = "done" =>
        \A i \in DOMAIN dec.out :
            (/\ dec.offs[i] \in Range(Framing.starts)
             /\ dec.stream[dec.offs[i] + 2] \notin DOMAIN descriptorMap) =>
                /\ dec.out[i].kind = "UnknownDescriptor"
                /\ dec.out[i].hdr.Length = dec.stream[dec.offs[i] + 1]
                /\ dec.out[i].hdr.DescriptorType = dec.stream[dec.offs[i] + 2]
                /\ Len(dec.out[i].Data) = dec.out[i].hdr.Length - 2
                /\ \A j \in DOMAIN dec.out[i].Data :
                       dec.out[i].Data[j] = dec.stream[dec.offs[i] + 2 + j]

\* the type codes the specification lists as known
KnownTypeCodes == {1, 2, 3, 4, 5, 11, 15, 16, 48, 49}

\* C12: a descriptor carrying one of the known type codes 1, 2, 3, 4, 5,
\* 11, 15, 16, 48, 49 is decoded to its typed variant, never to Unknown.
C12_KnownCodesAreTyped ==
    dec.phase = "done" =>
        \A i \in DOMAIN dec.out :
            dec.out[i].hdr.DescriptorType \in KnownTypeCodes =>
                dec.out[i].kind # "UnknownDescriptor"

(***************************************************************************)
(* Properties of the endpoint attribute accessors                          *)
(***************************************************************************)
\* C13: for every attribute byte b in 0..255, TransferType is b & 0x3,
\* SynchronizationType is (b >> 2) & 0x3 and UsageType is (b >> 4) & 0x3;
\* each is one of the four values 0..3 and the three read disjoint bits
\* (together they are the low six bits of b).
C13_AttributeBits ==
    dec.phase = "attributes" =>
        /\ dec.TransferType = dec.BmAttributes % 4
        /\ dec.SynchronizationType = (dec.BmAttributes \div 4) % 4
        /\ dec.UsageType = (dec.BmAttributes \div 16) % 4
        /\ {dec.TransferType, dec.SynchronizationType, dec.UsageType} \subseteq 0 .. 3
        /\ dec.TransferType + 4 * dec.SynchronizationType + 16 * dec.UsageType
               = dec.BmAttributes % 64

C13_Witness ==
    /\ dec.phase = "attributes"
    /\ dec.BmAttributes = 54
    /\ dec.TransferType = 2
    /\ dec.SynchronizationType = 1
    /\ dec.UsageType = 3

(***************************************************************************)
(* Properties of the standard device requests                              *)
(***************************************************************************)
\* the control record of the one OS call outcome o reports
Sent(o) == o.sys[1].arg

\* the language id the caller of a GetDescriptor variant asks for: the
\* languageID argument where the variant has one, any language id where it
\* has none
AskedLanguages(o) == IF o.op = "GetDescriptor" THEN {o.args[3]} ELSE LangIds

\* C14: GetDescriptor(descriptorType, idx, languageID) issues request 6 with
\* value = (descriptorType << 8) | idx and index = languageID, for every
\* variant of GetDescriptor and every language id the caller asks for.
C14_GetDescriptorValueIndex ==
    (/\ last.op \in {"GetDescriptor", "GetDescriptorOld", "GetDescriptorData"}
     /\ last.sys # NoCall) =>
        /\ Sent(last).Value = 256 * last.args[1] + last.args[2]
        /\ \A l \in AskedLanguages(last) : Sent(last).Index = l

\* the request-type byte is direction OUT, type Standard, recipient r
OutStandardTo(typ, r) ==
    /\ typ \div 128 = 0
    /\ (typ \div 32) % 4 = 0
    /\ typ % 32 = r

StatusOps ==
    {"GetDeviceStatus", "GetDevicePTMStatus", "GetInterfaceStatus", "GetEndpointStatus"}

\* C16: every GetStatus operation issues request 0x00 with value = status
\* type (1 for GetDevicePTMStatus, 0 for the others), index = the interface
\* or endpoint number (0 for the device), a buffer of 2 bytes (4 for PTM),
\* and returns no status record when the transfer failed.
C16_GetStatusRequests ==
    last.op \in StatusOps =>
        /\ last.sys # NoCall
        /\ Sent(last).Request = 0
        /\ Sent(last).Value = IF last.op = "GetDevicePTMStatus" THEN 1 ELSE 0
        /\ Sent(last).Length = IF last.op = "GetDevicePTMStatus" THEN 4 ELSE 2
        /\ Sent(last).Index =
               IF last.op \in {"GetInterfaceStatus", "GetEndpointStatus"}
               THEN last.args[1]
               ELSE 0
        /\ last.err # "nil" => last.ret = "nil"
        /\ last.err = "nil" => last.ret = "status"

C16_Witness ==
    /\ last.op = "GetDevicePTMStatus"
    /\ IsOpen(last.s)
    /\ last.err = "ETIMEDOUT"
    /\ last.ret = "nil"
    /\ Sent(last).Length = 4
    /\ Sent(last).Value = 1

\* the request code the standard table gives to each operation
StandardCode ==
    [op \in {"GetDeviceStatus", "GetDevicePTMStatus", "GetInterfaceStatus",
             "GetEndpointStatus"} |-> 0]
    @@ ("ClearFeature" :> 1) @@ ("SetFeature" :> 3) @@ ("SetAddress" :> 5)
    @@ [op \in {"GetDescriptor", "GetDescriptorOld", "GetDescriptorData"} |-> 6]
    @@ ("SetDescriptor" :> 7)
    @@ [op \in {"GetConfiguration", "GetConfigurationOld"} |-> 8]
    @@ [op \in {"SetConfiguration", "SetConfigurationOld"} |-> 9]
    @@ [op \in {"GetInterface", "GetAltInterface"} |-> 10]
    @@ [op \in {"SetInterface", "SetAltInterface"} |-> 11]
    @@ ("SyncFrame" :> 12) @@ ("SetSEL" :> 48) @@ ("SetIsochronousDelay" :> 49)

\* C17: every operation that issues a standard request uses the request
\* code of the standard table; the operations that select an alternate
\* setting (SetInterface, SetAltInterface) issue 0x0B.
C17_StandardRequestCodes ==
    (last.op \in DOMAIN StandardCode /\ last.sys # NoCall) =>
        Sent(last).Request = StandardCode[last.op]

\* the request methods that read a response into a buffer
InOps ==
    StatusOps \cup {"GetDescriptor", "GetDescriptorOld", "GetDescriptorData",
                    "GetConfiguration", "GetConfigurationOld", "GetInterface",
                    "GetAltInterface", "SyncFrame"}

\* C21: in every request a request method issues, bit 7 of the request-type
\* byte is 1 (IN) exactly when the method reads a response into a buffer and
\* 0 (OUT) otherwise, whatever recipient value the caller passes to
\* SetFeature and ClearFeature.
C21_DirectionBitMatchesCall ==
    (last.op \in DOMAIN StandardCode /\ last.sys # NoCall) =>
        (Sent(last).RequestType \div 128 = 1 <=> last.op \in InOps)

(***************************************************************************)
(* Properties of two sessions used side by side                            *)
(***************************************************************************)
\* what a session is to its caller: whether it is open, the descriptor it
\* hands to the OS, the kernel resources it owns and the opens it has made
SessionState(s) ==
    [open |-> IsOpen(s), handle |-> HandleArg(s), held |-> Held(s), opens |-> nOpen[s]]

\* the step is an operation of session s whose effect on s is the effect the
\* operation has on a session that is alone: it depends on the state of s only
StepAlone(s) ==
    /\ \A i \in 1 .. Len(last'.sys) :
           last'.sys[i].call = "ioctl" \/ last'.sys[i].call = "close" =>
               last'.sys[i].fd = fd[s]
    /\ last'.op = "Open" =>
           /\ last'.err = "device already open" <=> IsOpen(s)
           /\ IsOpen(s)' = (IsOpen(s) \/ last'.err = "nil")
           /\ IsOpen(s) => SessionState(s)' = SessionState(s)
    /\ last'.op = "Close" =>
           /\ ~IsOpen(s)'
           /\ Held(s)' = {}
           /\ nOpen'[s] = nOpen[s]
    /\ last'.op \notin {"Open", "Close"} => SessionState(s)' = SessionState(s)

\* C22: two sessions share no mutable state: in every interleaving of the
\* operations of A and B, an operation of one session changes neither the
\* handle state of the other nor the handle the other passes to the OS, and
\* acts on its own session as it would if that session ran alone.
C22_SessionsIndependent ==
    [][\A s \in Sessions :
           IF s = last'.s THEN StepAlone(s)
           ELSE SessionState(s)' = SessionState(s)]_vars

C22_Witness ==
    /\ last.s = "B"
    /\ last.op \in TransferOps
    /\ last.err = "nil"
    /\ fd["B"] = FirstFd
    /\ fd["A"] = FirstFd + 1
    /\ nOpen["A"] > 1

\* C23: no operation panics on what the device answers: GetStringDescriptor
\* returns a string or an error for every response, among them a response
\* whose descriptor type is not String, one whose declared length is below 2
\* and one of no bytes.
C23_NoPanicOnDeviceResponse ==
    last.op = "GetStringDescriptor" => last.err # "panic"

(***************************************************************************)
(* Properties of the usbdevfs command numbers                              *)
(***************************************************************************)
\* the four fields of a command number
NumberDir(w) == w[1] \div 2 ^ (iocDirShift - HalfBits)
NumberSize(w) == w[1] % 2 ^ (iocDirShift - HalfBits)
NumberType(w) == w[2] \div 2 ^ iocTypeShift
NumberNr(w) == w[2] % 2 ^ iocTypeShift

\* the direction each constructor stands for: 0 none, 1 write, 2 read,
\* 3 read-write
ConstructorDir == ("IO" :> 0) @@ ("IOW" :> 1) @@ ("IOR" :> 2) @@ ("IOWR" :> 3)

\* C24: a usbdevfs command number is (dir << 30) | (size << 16) | (type << 8)
\* | nr: for sizes below 2^14 the four fields do not overlap and can be read
\* back; every command variable has type 'U', the direction of its
\* constructor and the kernel's number; control is 0xC0185500 and bulk
\* 0xC0185502, both with records of 24 bytes.
C24_CommandNumbers ==
    /\ (dec.phase = "number" /\ dec.size < 2 ^ iocSizeBits) =>
          /\ NumberDir(dec.number) = dec.dir
          /\ NumberSize(dec.number) = dec.size
          /\ NumberType(dec.number) = dec.t
          /\ NumberNr(dec.number) = dec.nr
    /\ dec.phase = "command" =>
          /\ dec.number = target[KernelName[dec.name]]
          /\ NumberType(dec.number) = 85
          /\ NumberDir(dec.number) = ConstructorDir[ctl_usbdevfs[dec.name][1]]
          /\ NumberNr(dec.number) = ctl_usbdevfs[dec.name][2]
          /\ dec.name = "ctl_usbdevfs_control" =>
                 dec.number = <<49176, 21760>> /\ NumberSize(dec.number) = 24
          /\ dec.name = "ctl_usbdevfs_bulk" =>
                 dec.number = <<49176, 21762>> /\ NumberSize(dec.number) = 24

C24_Witness ==
    /\ dec.phase = "command"
    /\ dec.name = "ctl_usbdevfs_control"
    /\ dec.number = <<49176, 21760>>

(***************************************************************************)
(* Properties of records decoded from short input                          *)
(***************************************************************************)
\* the bytes the decoder had for the fields of the i-th delivered descriptor:
\* the rest of the stream in ReadDescriptors, the body of the declared length
\* in parseDescriptor
Available(i) ==
    IF dec.variant = "ReadDescriptors"
    THEN SubSeq(dec.stream, dec.offs[i] + 3, Len(dec.stream))
    ELSE SubSeq(dec.stream, dec.offs[i] + 3, dec.offs[i] + 2 + BodySize(dec.out[i].hdr))

\* the fields of the i-th delivered descriptor, by kind
FieldsOf(i) == StructFields(dec.out[i].kind, dec.variant = "parseDescriptor")

\* the i-th delivered descriptor has integer fields only and its input ended
\* inside them
RanShort(i) ==
    /\ FieldsOf(i)[1] # "bytes"
    /\ Len(Available(i)) < FieldOffset(FieldsOf(i), Len(FieldsOf(i)) + 1)

\* C25: when a field read runs short, decoding of that descriptor stops
\* without an error: the record is delivered with the fields in front of the
\* short one holding their decoded little-endian values and the short field
\* and all later fields zero.
C25_ShortReadKeepsDecodedFields ==
    \A i \in 1 .. Len(dec.out) :
        RanShort(i) =>
            /\ Len(dec.out[i].fields) = Len(FieldsOf(i))
            /\ \A j \in 1 .. Len(FieldsOf(i)) :
                   LET o == FieldOffset(FieldsOf(i), j)
                       z == FieldSize(FieldsOf(i)[j])
                   IN  dec.out[i].fields[j] =
                           IF o + z <= Len(Available(i))
                           THEN LittleEndian(SubSeq(Available(i), o + 1, o + z))
                           ELSE 0
            /\ (dec.phase = "done" /\ dec.variant = "ReadDescriptors") => dec.err = "nil"

C25_Witness ==
    /\ dec.phase = "done"
    /\ dec.err = "nil"
    /\ dec.variant = "ReadDescriptors"
    /\ Len(dec.out) = 1
    /\ RanShort(1)
    /\ dec.out[1].kind = "EndpointDescriptor"
    /\ dec.out[1].hdr.Length = 7
    /\ dec.out[1].fields = <<17, 18, 0, 0>>

(***************************************************************************)
(* Properties of a session whose device is gone                            *)
(***************************************************************************)
\* C26: an open session returns to closed by Close or by forced closure: once
\* a transfer has failed with the fatal error of a disconnected device
\* (ENODEV), the session is closed, IsOpen is false and the kernel resource
\* is released.
C26_FatalErrorClosesSession ==
    (last.op \in TransferOps /\ last.err = "ENODEV") =>
        /\ ~IsOpen(last.s)
        /\ Held(last.s) = {}

(***************************************************************************)
(* Properties of the registry of descriptor types                          *)
(***************************************************************************)
\* the type of the latest call that registered code, <<>> when there is none
RECURSIVE LatestRegistered(_, _)
LatestRegistered(regs, code) ==
    IF regs = <<>> THEN <<>>
    ELSE IF regs[Len(regs)][1] = code THEN <<regs[Len(regs)][2]>>
    ELSE LatestRegistered(SubSeq(regs, 1, Len(regs) - 1), code)

\* the type decoding has to use for code: the latest registered, else the
\* built-in one, else UnknownDescriptor
TypeInForce(code) ==
    IF LatestRegistered(dec.regs, code) # <<>> THEN LatestRegistered(dec.regs, code)[1]
    ELSE IF code \in DOMAIN descriptorMap THEN descriptorMap[code]
    ELSE "UnknownDescriptor"

\* C27: the type decoded for a code is the one of the latest
\* RegisterDescriptorType call for it, for built-in codes too; when that type
\* implements the custom full-body decoder, decoding invokes that decoder
\* only, returns its error as the decode error and delivers the fields it set.
C27_CustomDecoderAndLatestType ==
    dec.phase = "decoded" =>
        LET t == TypeInForce(dec.data[2])
            hdr == [Length |-> dec.data[1], DescriptorType |-> dec.data[2]]
        IN  /\ dec.result.err = "nil" => dec.result.desc.kind = t
            /\ t \in CustomDecoders =>
                  /\ dec.result.calls = <<"ReadUSBDescriptor">>
                  /\ dec.result.err = ReadUSBDescriptor(t, hdr, dec.data, 2).err
                  /\ dec.result.err = "nil" =>
                         dec.result.desc.fields = <<dec.data[3], 0>>
            /\ t \notin CustomDecoders =>
                  /\ dec.result.calls = <<"field loop">>
                  /\ dec.result.err = "nil"

C27_Witness ==
    /\ dec.phase = "decoded"
    /\ dec.regs = <<<<DescriptorTypeEndpoint, "FailingDescriptor">>,
                    <<DescriptorTypeEndpoint, "VendorDescriptor">>>>
    /\ dec.data = <<7, 5, 17, 18, 19, 20, 21>>
    /\ dec.result.err = "nil"
    /\ dec.result.desc.kind = "VendorDescriptor"
    /\ dec.result.desc.fields = <<17, 0>>

(***************************************************************************)
(* Properties of the PTM status record                                     *)
(***************************************************************************)
\* C28: in the result of GetDevicePTMStatus, LDMEnabled and LDMValid are
\* both bit 0 of the first response byte: they are equal for every response
\* (LDMValid is never true while LDMEnabled is false) and no other bit of the
\* response makes them differ.
C28_LDMFlagsFromBitZero ==
    dec.phase = "status" =>
        /\ dec.status.LDMValid = (dec.data[1] % 2 = 1)
        /\ dec.status.LDMEnabled = (dec.data[1] % 2 = 1)
        /\ dec.status.LDMEnabled = dec.status.LDMValid
        /\ ~(dec.status.LDMValid /\ ~dec.status.LDMEnabled)

C28_Witness ==
    /\ dec.phase = "status"
    /\ dec.data = <<254, 255, 1, 255>>
    /\ ~dec.status.LDMValid
    /\ ~dec.status.LDMEnabled
    /\ dec.status.LDMLinkDelay = 65281

(***************************************************************************)
(* Properties of the descriptor type constants                             *)
(***************************************************************************)
\* the wire values of the type-code table
TypeCodeTable ==
    ("DescriptorTypeDevice" :> 1) @@ ("DescriptorTypeConfig" :> 2)
    @@ ("DescriptorTypeString" :> 3) @@ ("DescriptorTypeInterface" :> 4)
    @@ ("DescriptorTypeEndpoint" :> 5)
    @@ ("DescriptorTypeInterfaceAssociation" :> 11)
    @@ ("DescriptorTypeBOS" :> 15) @@ ("DescriptorTypeDeviceCapability" :> 16)
    @@ ("DescriptorTypeSuperSpeedUSBEndprointCompanion" :> 48)
    @@ ("DescriptorTypeSuperSpeedPlusIsochronousEndpointCompanion" :> 49)

\* C29: the descriptor-type constants carry the wire values of the type-code
\* table (Device 1, Configuration 2, String 3, Interface 4, Endpoint 5,
\* InterfaceAssociation 11, BOS 15, DeviceCapability 16, the companions 48
\* and 49), and no two constants of different names have the same value.
C29_TypeCodeConstants ==
    dec.phase = "named" =>
        /\ \A n \in DOMAIN TypeCodeTable :
               n \in dec.names <=> TypeCodeTable[n] = dec.code
        /\ \A a, b \in dec.names : a = b

\* C30: in both variants of the package, DetachKernel and AttachKernel hand
\* the kernel the pass-through command USBDEVFS_IOCTL (number 18) with the
\* record {interface, code DISCONNECT 0x5516 or CONNECT 0x5517, data 0}; the
\* command number is never the inner DISCONNECT or CONNECT code.
C30_DriverControlThroughPassThrough ==
    (last.op \in {"DetachKernel", "AttachKernel"} /\ last.sys # NoCall) =>
        LET c == last.sys[1]
        IN  /\ c.cmd = "USBDEVFS_IOCTL"
            /\ NumberNr(target[c.cmd]) = 18
            /\ c.arg.Interface \in Ifaces
            /\ c.arg.IoctlCode = (IF last.op = "DetachKernel"
                                  THEN "USBDEVFS_DISCONNECT"
                                  ELSE "USBDEVFS_CONNECT")
            /\ target[c.arg.IoctlCode] = (IF last.op = "DetachKernel"
                                          THEN <<0, 21782>> ELSE <<0, 21783>>)
            /\ c.arg.Data = 0

====
